---- MODULE Spec2Model ----
(***************************************************************************)
(* Inference-serving pipeline of sound-classifier-next.                    *)
(*                                                                         *)
(* Two FastAPI services are modelled, selected by the variable svc:        *)
(*   "route" : src/app/api/route.py                                        *)
(*   "main"  : src/api/python/main.py                                      *)
(* Both run on one asyncio event loop (uvicorn.run, one process).  An      *)
(* `async def` handler runs on the loop without interruption until it      *)
(* awaits; the variable loop holds the request whose handler currently     *)
(* occupies the loop (0 when the loop is idle).  Handlers are split into   *)
(* steps at the calls that touch the disk, the decoder or the model, and   *)
(* pc records each request's position.                                     *)
(***************************************************************************)
EXTENDS Integers, Sequences, FiniteSets, TLC

\* ------------------------------------------------------------- bounds
\* Number of requests that clients send during one run of the process.
MaxReq == 2
\* Number of distinct random names tempfile can draw.
NumNames == 2

Requests == 1..MaxReq
Names == 1..NumNames

\* ------------------------------------------------------------- values
None == [is |-> "none"]
Some(v) == [is |-> "some", v |-> v]

\* A path is a sequence of name tokens; the empty sequence is Python's None
\* for the locals temp_path / wav_path (both are falsy).
NoPath == << >>

\* Uploaded file names (UploadFile.filename); the last token is the extension.
\* A multipart part is a file only when it carries a filename, so the name is
\* always a string: one without extension, one with an upper-case one.
Filenames == {Some(<<"clip">>), Some(<<"clip", ".WAV">>)}
\* Declared content types (UploadFile.content_type), as token sequences.
ContentTypes == {None, Some(<<"audio", "/", "wav">>), Some(<<"text", "/", "plain">>)}
\* The optional form field `industry`.
Industries == {None, Some("music")}

\* What generate_caption can return.
ModelOutputs ==
    { [type |-> "list",     items |-> <<"a dog barks">>],
      [type |-> "list",     items |-> << >>],
      [type |-> "list",     items |-> <<"">>],
      [type |-> "tuple",    items |-> <<"a dog barks">>],
      [type |-> "NoneType", items |-> << >>] }

\* ------------------------------------------------------------- state
VARIABLES
    svc,         \* which service module is deployed
    lifespanOn,  \* whether the ASGI host runs the app's lifespan
    phase,       \* "import", "startup", "serving", "stopped", "aborted"
    clap_model,  \* the global: "None", "Model", or "Unbound" (after del)
    weights,     \* the weight file on disk: "absent", "partial", "complete"
    loop,        \* request whose handler occupies the event loop, 0 if idle
    pc,          \* position of each request
    req,         \* the request as submitted
    temp_path,   \* local temp_path of process_audio
    wav_path,    \* local wav_path of process_audio (route.py)
    files,       \* scratch files present in the temp directory
    resp,        \* the response sent for each request
    outcome,     \* history: the exit path each request took
    owner,       \* history: for each scratch file on disk, the request that wrote it
    creates,     \* history: number of scratch files each request created
    decodeCalls, \* history: AudioSegment.from_file calls made by each request
    inferCalls,  \* history: generate_caption calls made by each request
    unlinkCalls  \* history: os.unlink calls made by each request

vars == << svc, lifespanOn, phase, clap_model, weights, loop, pc, req,
           temp_path, wav_path, files, resp, outcome, owner,
           creates, decodeCalls, inferCalls, unlinkCalls >>

lifecycleVars == << phase, clap_model, weights >>
deployVars == << svc, lifespanOn >>

NoReq == [kind |-> "none"]
NoResp == [kind |-> "none"]

\* ------------------------------------------------------- pure helpers
\* str.startswith on token sequences.
StartsWith(s, prefix) ==
    /\ Len(s) >= Len(prefix)
    /\ SubSeq(s, 1, Len(prefix)) = prefix

AudioPrefix == <<"audio", "/">>

\* str.lower on an extension token.
Lower(t) == IF t = ".WAV" THEN ".wav" ELSE t

\* os.path.splitext(name)[1]: the last token when it is a dot-extension that
\* does not start the name, else the empty string.
SplitExt(name) ==
    IF Len(name) > 1 /\ name[Len(name)] \in {".WAV", ".wav"}
    THEN name[Len(name)]
    ELSE ""

\* Variant: a candidate name is taken even when the file exists.
Usable_Any(p, fs) == TRUE

\* NamedTemporaryFile opens its candidate with O_CREAT | O_EXCL: a name is
\* taken only when no file has it.
Usable(p, fs) == p \notin fs

\* The path tempfile builds from a random name and the requested suffix.
TempName(n, suffix) == IF suffix = "" THEN <<n>> ELSE <<n, suffix>>

\* wav_path = temp_path + ".wav"
WavOf(path) == path \o <<".wav">>

\* Python truthiness of a model output (`not captions`).
Truthy(o) == o.type # "NoneType" /\ Len(o.items) > 0

\* Variant: the first element is not checked.
Malformed_NoFirstCheck(o) == ~Truthy(o) \/ o.type # "list"

\* `not captions or not isinstance(captions, list) or not captions[0]`
Malformed(o) == ~Truthy(o) \/ o.type # "list" \/ o.items[1] = ""

\* Exceptions and str(e).  starlette's HTTPException prints as
\* "<status_code>: <detail>".
Exc(cls, msg) == [cls |-> cls, msg |-> msg]
HTTPException(status, detail) ==
    [cls |-> "HTTPException", status |-> status, detail |-> detail]
Str(e) ==
    IF e.cls = "HTTPException"
    THEN <<ToString(e.status), ": ">> \o e.detail
    ELSE e.msg

NotInitialized == <<"Model not initialized. Please try again later.">>
InvalidFileType == <<"Invalid file type. Please upload an audio file.">>
FailedToGenerate == <<"Failed to generate caption. Please try again.">>
ErrorProcessing == <<"Error processing audio: ">>

\* The response the framework sends for a raised HTTPException.
ErrorResponse(e) == [kind |-> "error", status |-> e.status, detail |-> e.detail]
\* The response the framework sends for a returned body.
OkResponse(body) == [kind |-> "ok", status |-> 200, body |-> body]

\* Variant: the handler reports every fault as a client error.
RouteExcept_As400(e) == HTTPException(400, ErrorProcessing \o Str(e))

\* route.py: `except Exception as e` wraps whatever was raised inside the try,
\* an HTTPException included.
RouteExcept(e) == HTTPException(500, ErrorProcessing \o Str(e))

\* main.py: `except HTTPException: raise`, then `except Exception as e`.
MainExcept(e) ==
    IF e.cls = "HTTPException"
    THEN e
    ELSE HTTPException(500, ErrorProcessing \o Str(e))

\* The creator of each file left on the disk fs, given who wrote the file p.
OwnerAfter(fs, p, r) ==
    [q \in fs |-> IF q = p THEN r ELSE owner[q]]

\* Variant: the finally clause removes the WAV file only.
RouteFinally_WavOnly(fs, tp, wp) == fs \ ({wp} \ {NoPath})

\* route.py `finally`: unlink temp_path and wav_path when set and present.
RouteFinally(fs, tp, wp) == fs \ ({tp, wp} \ {NoPath})

\* ------------------------------------------------------------ initial
InitCommon ==
    /\ svc \in {"route", "main"}
    /\ phase = "import"
    /\ clap_model = "None"
    /\ weights \in {"absent", "complete"}
    /\ loop = 0
    /\ pc = [r \in Requests |-> "new"]
    /\ req = [r \in Requests |-> NoReq]
    /\ temp_path = [r \in Requests |-> NoPath]
    /\ wav_path = [r \in Requests |-> NoPath]
    /\ files = {}
    /\ resp = [r \in Requests |-> NoResp]
    /\ outcome = [r \in Requests |-> "none"]
    /\ owner = << >>
    /\ creates = [r \in Requests |-> 0]
    /\ decodeCalls = [r \in Requests |-> 0]
    /\ inferCalls = [r \in Requests |-> 0]
    /\ unlinkCalls = [r \in Requests |-> 0]

\* The process started by `python route.py` / `python main.py`: uvicorn.run
\* drives the lifespan.
Init == InitCommon /\ lifespanOn = TRUE

\* The module-level `app` served by any ASGI host, including one that does
\* not run lifespan events.
InitAnyHost == InitCommon /\ lifespanOn \in BOOLEAN

\* ---------------------------------------------------------- lifecycle
\* Variant: the existence check is dropped; every call fetches.
RouteDownload_Always(w, net) ==
    IF net = "ok" THEN [weights |-> "complete", raised |-> FALSE, fetched |-> TRUE]
    ELSE IF net = "http_error" THEN [weights |-> w, raised |-> TRUE, fetched |-> TRUE]
    ELSE [weights |-> "partial", raised |-> TRUE, fetched |-> TRUE]

\* route.py download_model: fetch the weights only when the file is absent.
\* net is what the network does: "ok", "http_error" (requests.get or
\* raise_for_status raises before the file is opened) or "write_error" (the
\* stream breaks after open(MODEL_PATH, 'wb')).
RouteDownload(w, net) ==
    IF w # "absent" THEN [weights |-> w, raised |-> FALSE, fetched |-> FALSE]
    ELSE IF net = "ok"
    THEN [weights |-> "complete", raised |-> FALSE, fetched |-> TRUE]
    ELSE IF net = "http_error"
    THEN [weights |-> "absent", raised |-> TRUE, fetched |-> TRUE]
    ELSE [weights |-> "partial", raised |-> TRUE, fetched |-> TRUE]

\* main.py download_model(): the URL is looked up with os.getenv under a name
\* that is the URL itself, so it is None unless such a variable is set
\* (env = "set") and requests.get(None) raises; the response body is written
\* without raise_for_status, whatever the status was.
MainDownload(w, env, net) ==
    IF w # "absent" THEN [weights |-> w, raised |-> FALSE, fetched |-> FALSE]
    ELSE IF env = "unset" \/ net = "conn_error"
    THEN [weights |-> "absent", raised |-> TRUE, fetched |-> TRUE]
    ELSE [weights |-> IF net = "ok" THEN "complete" ELSE "partial",
          raised |-> FALSE, fetched |-> TRUE]

\* CLAP(version='clapcap', use_cuda=..., model_fp=...): construction reads the
\* weight file and can raise on its own (cons = "raise").
Constructs(w, cons) == w = "complete" /\ cons = "ok"

\* load_model(): returns ok with the new value of the global and of the file,
\* and whether the model held on entry was deleted (the `del` comes first,
\* before the download and the construction).
\* `del clap_model` unbinds the global name; reading an unbound global raises
\* NameError, which the except clause turns into False.
LoadModel(cm, w, net, cons) ==
    LET cm1 == IF cm # "None" THEN "Unbound" ELSE cm
        dl  == IF svc = "route" THEN RouteDownload(w, net)
               ELSE [weights |-> w, raised |-> FALSE, fetched |-> FALSE]
        rel == cm = "Model"
    IN  IF cm = "Unbound"
        THEN [ok |-> FALSE, clap_model |-> cm, weights |-> w, released |-> FALSE]
        ELSE IF dl.raised
        THEN [ok |-> FALSE, clap_model |-> cm1, weights |-> dl.weights, released |-> rel]
        ELSE IF Constructs(dl.weights, cons)
        THEN [ok |-> TRUE, clap_model |-> "Model", weights |-> dl.weights, released |-> rel]
        ELSE [ok |-> FALSE, clap_model |-> cm1, weights |-> dl.weights, released |-> rel]

\* Variant: the result of load_model() is ignored.
LifespanStartup_Ignore(ok) == "serving"

\* lifespan(): `if not load_model(): raise Exception(...)`, else yield.
LifespanStartup(ok) == IF ok THEN "serving" ELSE "aborted"

\* Importing the module.  main.py calls download_model() at module level; an
\* exception there ends the process before the app exists.
ImportModule ==
    /\ phase = "import"
    /\ IF svc = "main"
       THEN \E env \in {"unset", "set"}, net \in {"ok", "http_error", "conn_error"} :
              LET dl == MainDownload(weights, env, net)
              IN  /\ phase' = IF dl.raised THEN "aborted" ELSE "startup"
                  /\ weights' = dl.weights
       ELSE phase' = "startup" /\ UNCHANGED weights
    /\ UNCHANGED << deployVars, clap_model, loop, pc, req, temp_path, wav_path,
                    files, resp, outcome, owner, creates, decodeCalls, inferCalls, unlinkCalls >>

\* The host starts the application: with lifespan, load_model() runs before
\* any request is accepted; without, the app serves at once.
Startup ==
    /\ phase = "startup"
    /\ IF lifespanOn
       THEN \E net \in {"ok", "http_error", "write_error"}, cons \in {"ok", "raise"} :
              LET res == LoadModel(clap_model, weights, net, cons)
              IN  /\ clap_model' = res.clap_model
                  /\ weights' = res.weights
                  /\ phase' = LifespanStartup(res.ok)
       ELSE /\ phase' = "serving"
            /\ UNCHANGED << clap_model, weights >>
    /\ UNCHANGED << deployVars, loop, pc, req, temp_path, wav_path,
                    files, resp, outcome, owner, creates, decodeCalls, inferCalls, unlinkCalls >>

\* A process that ended before serving is started again (by hand or by a
\* supervisor): a new interpreter, the same disk.
Restart ==
    /\ phase = "aborted"
    /\ phase' = "import"
    /\ clap_model' = "None"
    /\ UNCHANGED << deployVars, weights, loop, pc, req, temp_path, wav_path,
                    files, resp, outcome, owner, creates, decodeCalls, inferCalls, unlinkCalls >>

\* Variant: the code after `yield` leaves the model in place.
LifespanShutdown_Keep(cm) == cm

\* lifespan() after `yield`: `if clap_model is not None: del clap_model`.
LifespanShutdown(cm) == IF cm # "None" THEN "Unbound" ELSE cm

\* Shutdown: the server stops once no request is in flight; with lifespan,
\* the code after `yield` deletes the global.
Shutdown ==
    /\ phase = "serving"
    /\ loop = 0
    /\ \A r \in Requests : pc[r] \in {"new", "done"}
    /\ phase' = "stopped"
    /\ clap_model' = IF lifespanOn THEN LifespanShutdown(clap_model) ELSE clap_model
    /\ UNCHANGED << deployVars, weights, loop, pc, req, temp_path, wav_path,
                    files, resp, outcome, owner, creates, decodeCalls, inferCalls, unlinkCalls >>

\* ----------------------------------------------------------- requests
\* Variant: handlers start whether or not another one occupies the loop.
LoopIdle_AlwaysFree == TRUE

\* The event loop starts a handler only when no other handler occupies it.
LoopIdle == loop = 0

\* Variant: the readiness check never fires.
NotReady_Never(cm) == FALSE

\* `if not clap_model`
NotReady(cm) == cm = "None"

\* `clap_model is not None`
ModelLoaded(cm) == cm # "None"

\* Variant: a handler that ends drops the model.
ModelAfterHandler_Reset(cm) == "None"

\* The handlers only read the global clap_model: none of them has a `global`
\* statement or assigns it, so a handler step leaves it as it was.
ModelAfterHandler(cm) == cm

\* main.py takes no industry field and only logs the filename: its requests
\* are drawn with one filename.  route.py only logs the content type: its
\* requests are drawn with one content type, a non-audio one.
CaptionRequests ==
    { [kind |-> "caption", filename |-> f, content_type |-> c, industry |-> i] :
        f \in IF svc = "route" THEN Filenames ELSE {Some(<<"clip", ".WAV">>)},
        c \in IF svc = "route" THEN {Some(<<"text", "/", "plain">>)} ELSE ContentTypes,
        i \in IF svc = "route" THEN Industries ELSE {None} }

\* A client sends a request; the server accepts connections once it serves.
\* Requests are numbered in arrival order.
Arrive(r) ==
    /\ phase = "serving"
    /\ pc[r] = "new"
    /\ \A q \in 1..(r - 1) : pc[q] # "new"
    /\ \E q \in CaptionRequests \cup {[kind |-> "health"], [kind |-> "root"]} :
          req' = [req EXCEPT ![r] = q]
    /\ pc' = [pc EXCEPT ![r] = "queued"]
    /\ UNCHANGED << deployVars, lifecycleVars, loop, temp_path, wav_path,
                    files, resp, outcome, owner, creates, decodeCalls, inferCalls, unlinkCalls >>

\* Completion of a request: the response is sent and the handler leaves the
\* loop.
Respond(r, response, oc) ==
    /\ resp' = [resp EXCEPT ![r] = response]
    /\ outcome' = [outcome EXCEPT ![r] = oc]
    /\ pc' = [pc EXCEPT ![r] = "done"]
    /\ loop' = 0

\* The fields of the bodies that depend on the state; main.py's endpoint list,
\* cuda_available and version are left out.
RootBody(cm) ==
    IF svc = "route"
    THEN [message |-> "Audio Captioning API is running", status |-> "healthy"]
    ELSE [message |-> "Welcome to Toun Audio Classifier API",
          status |-> IF ModelLoaded(cm) THEN "operational" ELSE "model_not_loaded"]

HealthBody(cm) ==
    [status |-> IF svc = "route" THEN "healthy" ELSE "ok",
     model_loaded |-> ModelLoaded(cm)]

Root(r) ==
    /\ phase = "serving"
    /\ pc[r] = "queued"
    /\ req[r].kind = "root"
    /\ LoopIdle
    /\ Respond(r, OkResponse(RootBody(clap_model)), "ok")
    /\ clap_model' = ModelAfterHandler(clap_model)
    /\ UNCHANGED << deployVars, phase, weights, req, temp_path, wav_path,
                    files, owner, creates, decodeCalls, inferCalls, unlinkCalls >>

HealthCheck(r) ==
    /\ phase = "serving"
    /\ pc[r] = "queued"
    /\ req[r].kind = "health"
    /\ LoopIdle
    /\ Respond(r, OkResponse(HealthBody(clap_model)), "ok")
    /\ clap_model' = ModelAfterHandler(clap_model)
    /\ UNCHANGED << deployVars, phase, weights, req, temp_path, wav_path,
                    files, owner, creates, decodeCalls, inferCalls, unlinkCalls >>

\* process_audio is entered: the readiness check precedes the try block.
ProcessAudioBegin(r) ==
    /\ phase = "serving"
    /\ pc[r] = "queued"
    /\ req[r].kind = "caption"
    /\ LoopIdle
    /\ IF NotReady(clap_model)
       THEN Respond(r, ErrorResponse(HTTPException(503, NotInitialized)), "not_ready")
       ELSE /\ pc' = [pc EXCEPT ![r] = "try"]
            /\ loop' = r
            /\ UNCHANGED << resp, outcome >>
    /\ clap_model' = ModelAfterHandler(clap_model)
    /\ UNCHANGED << deployVars, phase, weights, req, temp_path, wav_path,
                    files, owner, creates, decodeCalls, inferCalls, unlinkCalls >>

\* ------------------------------------------- route.py process_audio
\* Leaving the try block of route.py: the finally clause runs with the locals
\* tp, wp on the disk fs, then the response goes out.
\* The locals end with the call.
RouteExit(r, response, oc, fs, tp, wp) ==
    /\ files' = RouteFinally(fs, tp, wp)
    /\ unlinkCalls' = [unlinkCalls EXCEPT ![r] = @ + Cardinality(fs \ files')]
    /\ temp_path' = [temp_path EXCEPT ![r] = NoPath]
    /\ wav_path' = [wav_path EXCEPT ![r] = NoPath]
    /\ Respond(r, response, oc)

\* An exception e raised inside the try block of route.py.
RouteRaise(r, e, oc, fs, tp, wp) ==
    RouteExit(r, ErrorResponse(RouteExcept(e)), oc, fs, tp, wp)

\* splitext(filename), NamedTemporaryFile(suffix=..., delete=False), copy of
\* the upload into it.
R_CreateTemp(r) ==
    /\ svc = "route"
    /\ pc[r] = "try"
    /\ loop = r
    /\ LET suffix == Lower(SplitExt(req[r].filename.v))
       IN  IF \A n \in Names : ~Usable(TempName(n, suffix), files)
           THEN RouteRaise(r, Exc("FileExistsError", <<"no usable temporary file name">>),
                           "no_temp_name", files, NoPath, NoPath)
           ELSE \E n \in Names :
                  /\ Usable(TempName(n, suffix), files)
                  /\ files' = files \cup {TempName(n, suffix)}
                  /\ temp_path' = [temp_path EXCEPT ![r] = TempName(n, suffix)]
                  /\ pc' = [pc EXCEPT ![r] = "decode"]
                  /\ UNCHANGED << loop, wav_path, resp, outcome, unlinkCalls >>
    /\ owner' = OwnerAfter(files', temp_path'[r], r)
    /\ creates' = [creates EXCEPT ![r] = @ + Cardinality(files' \ files)]
    /\ clap_model' = ModelAfterHandler(clap_model)
    /\ UNCHANGED << deployVars, phase, weights, req, decodeCalls, inferCalls >>

\* audio = AudioSegment.from_file(temp_path)
R_Decode(r) ==
    /\ svc = "route"
    /\ pc[r] = "decode"
    /\ loop = r
    /\ decodeCalls' = [decodeCalls EXCEPT ![r] = @ + 1]
    /\ \E decoded \in BOOLEAN :
          IF decoded /\ temp_path[r] \in files
          THEN /\ pc' = [pc EXCEPT ![r] = "export"]
               /\ UNCHANGED << loop, temp_path, wav_path, files, resp, outcome, unlinkCalls >>
          ELSE RouteRaise(r, Exc("CouldntDecodeError", <<"Decoding failed">>),
                          "decode_error", files, temp_path[r], NoPath)
    /\ owner' = OwnerAfter(files', NoPath, r)
    /\ clap_model' = ModelAfterHandler(clap_model)
    /\ UNCHANGED << deployVars, phase, weights, req, creates, inferCalls >>

\* Variant: the raw upload is kept after the export.
AfterExport_KeepRaw(fs, tp, wp) == fs \cup {wp}

\* The scratch directory after a successful export: audio.export wrote
\* wav_path, os.unlink(temp_path) removed the raw upload.
AfterExport(fs, tp, wp) == (fs \cup {wp}) \ {tp}

\* wav_path = temp_path + ".wav"; audio.export(wav_path, format="wav");
\* os.unlink(temp_path); temp_path = None.  A failing export may or may not
\* have created the output file.
R_Export(r) ==
    /\ svc = "route"
    /\ pc[r] = "export"
    /\ loop = r
    /\ LET wp == WavOf(temp_path[r])
       IN  \E res \in {"ok", "fail_partial", "fail_nofile"} :
             /\ creates' = [creates EXCEPT ![r] = IF res = "fail_nofile" THEN @ ELSE @ + 1]
             /\ IF res = "ok"
                THEN /\ files' = AfterExport(files, temp_path[r], wp)
                     /\ temp_path' = [temp_path EXCEPT ![r] = NoPath]
                     /\ wav_path' = [wav_path EXCEPT ![r] = wp]
                     /\ pc' = [pc EXCEPT ![r] = "generate"]
                     /\ unlinkCalls' = [unlinkCalls EXCEPT ![r] =
                                           @ + Cardinality(files \ AfterExport(files, temp_path[r], wp))]
                     /\ UNCHANGED << loop, resp, outcome >>
                ELSE RouteRaise(r, Exc("CouldntEncodeError", <<"Encoding failed">>),
                                "export_error",
                                IF res = "fail_partial" THEN files \cup {wp} ELSE files,
                                temp_path[r], wp)
             /\ owner' = OwnerAfter(files', wp, r)
    /\ clap_model' = ModelAfterHandler(clap_model)
    /\ UNCHANGED << deployVars, phase, weights, req, decodeCalls, inferCalls >>

\* clap_model.generate_caption([wav_path], ...) is called: a synchronous call
\* inside the coroutine, so the handler keeps the loop until it returns.
R_GenerateCall(r) ==
    /\ svc = "route"
    /\ pc[r] = "generate"
    /\ loop = r
    /\ pc' = [pc EXCEPT ![r] = "inferring"]
    /\ inferCalls' = [inferCalls EXCEPT ![r] = @ + 1]
    /\ clap_model' = ModelAfterHandler(clap_model)
    /\ UNCHANGED << deployVars, phase, weights, loop, req, temp_path, wav_path,
                    files, resp, outcome, owner, creates, decodeCalls, unlinkCalls >>

\* Variant: the tag is not passed on.
RouteSuccessBody_DropTag(caption, industry) ==
    [caption |-> caption, industry |-> None, status |-> "success"]

\* route.py: return {"caption": caption, "industry": industry, "status": "success"}
RouteSuccessBody(caption, industry) ==
    [caption |-> caption, industry |-> industry, status |-> "success"]

\* generate_caption returns or raises; the shape check; the response.
R_GenerateReturn(r) ==
    /\ svc = "route"
    /\ pc[r] = "inferring"
    /\ loop = r
    /\ \/ RouteRaise(r, Exc("RuntimeError", <<"model failure">>),
                     "model_raised", files, temp_path[r], wav_path[r])
       \/ \E out \in ModelOutputs :
            IF Malformed(out)
            THEN RouteRaise(r, HTTPException(500, FailedToGenerate),
                            "malformed_output", files, temp_path[r], wav_path[r])
            ELSE RouteExit(r, OkResponse(RouteSuccessBody(out.items[1], req[r].industry)),
                           "ok", files, temp_path[r], wav_path[r])
    /\ owner' = OwnerAfter(files', NoPath, r)
    /\ clap_model' = ModelAfterHandler(clap_model)
    /\ UNCHANGED << deployVars, phase, weights, req, creates, decodeCalls, inferCalls >>

\* -------------------------------------------- main.py process_audio
\* Leaving the try block of main.py: there is no finally clause.  The local
\* ends with the call.
MainExit(r, response, oc, fs) ==
    /\ files' = fs
    /\ unlinkCalls' = [unlinkCalls EXCEPT ![r] = @ + Cardinality(files \ fs)]
    /\ temp_path' = [temp_path EXCEPT ![r] = NoPath]
    /\ Respond(r, response, oc)

\* An exception e raised inside the try block of main.py.
MainRaise(r, e, oc, fs) ==
    MainExit(r, ErrorResponse(MainExcept(e)), oc, fs)

\* `if not file.content_type.startswith('audio/')`
M_Validate(r) ==
    /\ svc = "main"
    /\ pc[r] = "try"
    /\ loop = r
    /\ IF req[r].content_type = None
       THEN MainRaise(r, Exc("AttributeError", <<"'NoneType' object has no attribute 'startswith'">>),
                      "missing_content_type", files)
       ELSE IF ~StartsWith(req[r].content_type.v, AudioPrefix)
       THEN MainRaise(r, HTTPException(400, InvalidFileType), "bad_type", files)
       ELSE /\ pc' = [pc EXCEPT ![r] = "create"]
            /\ UNCHANGED << loop, temp_path, files, resp, outcome, unlinkCalls >>
    /\ owner' = OwnerAfter(files', NoPath, r)
    /\ clap_model' = ModelAfterHandler(clap_model)
    /\ UNCHANGED << deployVars, phase, weights, req, wav_path,
                    creates, decodeCalls, inferCalls >>

\* NamedTemporaryFile(suffix=".wav", delete=False), then `await file.read()`:
\* the read suspends the handler when the upload was spooled to disk and
\* returns at once when it is held in memory.  temp_path holds temp_file.name.
M_CreateTemp(r) ==
    /\ svc = "main"
    /\ pc[r] = "create"
    /\ loop = r
    /\ IF \A n \in Names : ~Usable(TempName(n, ".wav"), files)
       THEN /\ MainRaise(r, Exc("FileExistsError", <<"no usable temporary file name">>),
                         "no_temp_name", files)
       ELSE \E n \in Names, suspends \in BOOLEAN :
              /\ Usable(TempName(n, ".wav"), files)
              /\ files' = files \cup {TempName(n, ".wav")}
              /\ temp_path' = [temp_path EXCEPT ![r] = TempName(n, ".wav")]
              /\ pc' = [pc EXCEPT ![r] = IF suspends THEN "reading" ELSE "generate"]
              /\ loop' = IF suspends THEN 0 ELSE r
              /\ UNCHANGED << resp, outcome, unlinkCalls >>
    /\ owner' = OwnerAfter(files', temp_path'[r], r)
    /\ creates' = [creates EXCEPT ![r] = @ + Cardinality(files' \ files)]
    /\ clap_model' = ModelAfterHandler(clap_model)
    /\ UNCHANGED << deployVars, phase, weights, req, wav_path, decodeCalls, inferCalls >>

\* The read completes and the loop resumes the handler: temp_file.write(content).
M_Resume(r) ==
    /\ svc = "main"
    /\ pc[r] = "reading"
    /\ LoopIdle
    /\ loop' = r
    /\ pc' = [pc EXCEPT ![r] = "generate"]
    /\ clap_model' = ModelAfterHandler(clap_model)
    /\ UNCHANGED << deployVars, phase, weights, req, temp_path, wav_path, files,
                    resp, outcome, owner, creates, decodeCalls, inferCalls, unlinkCalls >>

\* clap_model.generate_caption([temp_path], ...) is called.
M_GenerateCall(r) ==
    /\ svc = "main"
    /\ pc[r] = "generate"
    /\ loop = r
    /\ pc' = [pc EXCEPT ![r] = "inferring"]
    /\ inferCalls' = [inferCalls EXCEPT ![r] = @ + 1]
    /\ clap_model' = ModelAfterHandler(clap_model)
    /\ UNCHANGED << deployVars, phase, weights, loop, req, temp_path, wav_path,
                    files, resp, outcome, owner, creates, decodeCalls, unlinkCalls >>

\* generate_caption returns or raises; os.unlink(temp_path) follows a return
\* only; the shape check; the response.
M_GenerateReturn(r) ==
    /\ svc = "main"
    /\ pc[r] = "inferring"
    /\ loop = r
    /\ \/ MainRaise(r, Exc("RuntimeError", <<"model failure">>), "model_raised", files)
       \/ \E out \in ModelOutputs :
            IF Malformed(out)
            THEN MainRaise(r, HTTPException(500, FailedToGenerate),
                           "malformed_output", files \ {temp_path[r]})
            ELSE MainExit(r, OkResponse([caption |-> out.items[1]]),
                          "ok", files \ {temp_path[r]})
    /\ owner' = OwnerAfter(files', NoPath, r)
    /\ clap_model' = ModelAfterHandler(clap_model)
    /\ UNCHANGED << deployVars, phase, weights, req, wav_path,
                    creates, decodeCalls, inferCalls >>

\* ------------------------------------------------------ specification
Next ==
    \/ ImportModule
    \/ Startup
    \/ Restart
    \/ Shutdown
    \/ \E r \in Requests :
         \/ Arrive(r)
         \/ Root(r)
         \/ HealthCheck(r)
         \/ ProcessAudioBegin(r)
         \/ R_CreateTemp(r)
         \/ R_Decode(r)
         \/ R_Export(r)
         \/ R_GenerateCall(r)
         \/ R_GenerateReturn(r)
         \/ M_Validate(r)
         \/ M_CreateTemp(r)
         \/ M_Resume(r)
         \/ M_GenerateCall(r)
         \/ M_GenerateReturn(r)

Spec == Init /\ [][Next]_vars

SpecAnyHost == InitAnyHost /\ [][Next]_vars

\* ------------------------------------------------------------- claims
Done(r) == pc[r] = "done"
IsCaption(r) == req[r].kind = "caption"
OwnedFiles(r) == {p \in files : owner[p] = r}
DeclaredNonAudio(r) ==
    /\ req[r].content_type # None
    /\ ~StartsWith(req[r].content_type.v, AudioPrefix)

\* C1: once a caption submission has completed, on whatever exit path, no
\* scratch file written by that request is left on disk.
C1_NoScratchFileRemains ==
    \A r \in Requests : (IsCaption(r) /\ Done(r)) => OwnedFiles(r) = {}

\* C2: no two caption submissions are inside the model's generate_caption
\* call at the same time.
C2_SingleInference ==
    \A r1, r2 \in Requests :
        (pc[r1] = "inferring" /\ pc[r2] = "inferring") => r1 = r2

\* C2 witness: one request is inside generate_caption while another caption
\* submission is in flight and has not yet reached inference.
C2_Witness ==
    \E r1, r2 \in Requests :
        /\ r1 # r2
        /\ pc[r1] = "inferring"
        /\ IsCaption(r2)
        /\ pc[r2] \in {"queued", "reading"}

\* C3: while the model global is None, a caption submission that has been
\* handled was answered 503 and created no scratch file, called no decoder
\* and called no inference.
C3_ReadinessGate ==
    \A r \in Requests :
        (clap_model = "None" /\ IsCaption(r) /\ pc[r] # "queued") =>
            /\ Done(r)
            /\ resp[r].kind = "error"
            /\ resp[r].status = 503
            /\ creates[r] = 0
            /\ decodeCalls[r] = 0
            /\ inferCalls[r] = 0
            /\ OwnedFiles(r) = {}

\* C3 witness: a caption submission was handled while the model was None.
C3_Witness ==
    \E r \in Requests :
        clap_model = "None" /\ IsCaption(r) /\ Done(r) /\ resp[r].status = 503

\* C4: a health request that is waiting while a caption request is in its
\* decode or inference step can be served at once.
C4_HealthServedDuringInference ==
    \A h, r \in Requests :
        ( /\ req[h].kind = "health"
          /\ pc[h] = "queued"
          /\ pc[r] \in {"decode", "export", "inferring"} )
        => ENABLED HealthCheck(h)

\* C5: a caption submission with a declared non-audio content type is
\* answered 400 without any scratch file, decode or inference.
C5_NonAudioRejected ==
    \A r \in Requests :
        (IsCaption(r) /\ Done(r) /\ DeclaredNonAudio(r)) =>
            /\ resp[r].kind = "error"
            /\ resp[r].status = 400
            /\ creates[r] = 0
            /\ decodeCalls[r] = 0
            /\ inferCalls[r] = 0

\* C6: a failed load at startup aborts startup and no request is ever
\* accepted; any request that was accepted was accepted after the model had
\* been loaded.
C6_LoadBeforeTraffic ==
    /\ (phase \notin {"import", "startup"} /\ clap_model = "None") =>
          (phase = "aborted" /\ \A r \in Requests : pc[r] = "new")
    /\ \A r \in Requests : pc[r] # "new" => clap_model # "None"

\* C6 witness: load_model failed during the lifespan startup of route.py.
C6_Witness ==
    svc = "route" /\ phase = "aborted" /\ clap_model = "None"

\* C7: a failure of the decoder or of the WAV export is answered 400.
C7_NormalizationFailureIs400 ==
    \A r \in Requests :
        outcome[r] \in {"decode_error", "export_error"} =>
            (resp[r].kind = "error" /\ resp[r].status = 400)

\* C8: an exception raised by the model during inference is answered 500,
\* the handler leaves the event loop and the service keeps serving.
C8_ModelFailureIs500 ==
    \A r \in Requests :
        outcome[r] = "model_raised" =>
            /\ Done(r)
            /\ resp[r].kind = "error"
            /\ resp[r].status = 500
            /\ loop # r
            /\ phase \in {"serving", "stopped"}
            /\ clap_model # "None"

\* C8 witness: after a request failed in the model, another caption request
\* is inside inference.
C8_Witness ==
    \E r, q \in Requests :
        outcome[r] = "model_raised" /\ Done(r) /\ pc[q] = "inferring"

\* C9: a completed caption submission carries either a success response with
\* a non-empty caption or an error response with status 503, 400 or 500.
C9_TypedOutcome ==
    \A r \in Requests :
        (IsCaption(r) /\ Done(r)) =>
            \/ /\ resp[r].kind = "ok"
               /\ resp[r].status = 200
               /\ resp[r].body.caption # ""
            \/ /\ resp[r].kind = "error"
               /\ resp[r].status \in {503, 400, 500}

\* C9 witness: a submission whose upload could not be decoded has completed;
\* the decoder's exception was answered 500.
C9_Witness ==
    \E r \in Requests :
        /\ IsCaption(r)
        /\ Done(r)
        /\ outcome[r] = "decode_error"
        /\ resp[r].status = 500

\* C10: a malformed model output is reported with the dedicated
\* "Failed to generate caption" error, not wrapped into the generic one.
C10_MalformedOutputDedicated ==
    \A r \in Requests :
        outcome[r] = "malformed_output" =>
            /\ resp[r].kind = "error"
            /\ resp[r].status = 500
            /\ resp[r].detail = FailedToGenerate


\* C11: the model global is changed only by the load and unload transitions:
\* no step of a caption, health or root request changes it, and whenever it
\* changes, the step is the lifespan's startup or shutdown.
C11_ModelChangedOnlyByLifespan ==
    [][ /\ (\E r \in Requests : pc'[r] # pc[r]) => clap_model' = clap_model
        /\ clap_model' # clap_model =>
              (phase \in {"startup", "serving"} /\ phase' # phase) ]_vars

\* C11 witness: a caption request has failed in the model, and the model is
\* still loaded while the service serves.
C11_Witness ==
    \E r \in Requests :
        /\ outcome[r] = "model_raised"
        /\ phase = "serving"
        /\ clap_model = "Model"
        /\ loop = 0


AtCallSite(r) == pc[r] \in {"generate", "inferring"}

\* C12: from the moment a caption request reaches the generate_caption call
\* until that call has returned, no other request is at the call site or
\* inside the call; so requests start and finish inference in the order in
\* which they reached the call site.
C12_CallSiteOrder ==
    \A a, b \in Requests : (AtCallSite(a) /\ AtCallSite(b)) => a = b

\* C12 witness: a request that arrived later stands at the call site while an
\* earlier one is still suspended in its upload read.
C12_Witness ==
    \E a, b \in Requests :
        a < b /\ pc[a] = "reading" /\ pc[b] = "generate"


\* C13: a successful caption submission of route.py returns the submitted
\* industry tag unchanged, whatever its value.
C13_TagUnchanged ==
    \A r \in Requests :
        (svc = "route" /\ IsCaption(r) /\ Done(r) /\ resp[r].kind = "ok") =>
            resp[r].body.industry = req[r].industry

\* C13 witness: a successful submission that carried a tag.
C13_Witness ==
    \E r \in Requests :
        /\ svc = "route"
        /\ IsCaption(r)
        /\ Done(r)
        /\ resp[r].kind = "ok"
        /\ req[r].industry = Some("music")


\* The status strings with which a root response reports a ready model.
ReportsReady(status) == status \in {"healthy", "operational"}

\* C14: while the service runs, every answered health query carries
\* model_loaded = TRUE exactly when the model is loaded, and every answered
\* root query carries a status that says ready exactly when the model is
\* loaded.
C14_ReadinessReported ==
    \A r \in Requests :
        (phase = "serving" /\ Done(r)) =>
            /\ req[r].kind = "health" =>
                  (resp[r].body.model_loaded <=> clap_model = "Model")
            /\ req[r].kind = "root" =>
                  (ReportsReady(resp[r].body.status) <=> clap_model = "Model")


\* C15: download_model fetches only when the weight file is absent.  No step
\* changes a weight file that is present, and with the file present a call of
\* either download_model performs no fetch and returns the file as it was,
\* whatever the network would have answered.
C15_DownloadIdempotent ==
    [][ /\ weights' # weights => weights = "absent"
        /\ weights # "absent" =>
              /\ \A net \in {"ok", "http_error", "write_error"} :
                    /\ ~RouteDownload(weights, net).fetched
                    /\ RouteDownload(weights, net).weights = weights
              /\ \A env \in {"unset", "set"}, net \in {"ok", "http_error", "conn_error"} :
                    /\ ~MainDownload(weights, env, net).fetched
                    /\ MainDownload(weights, env, net).weights = weights ]_vars

\* C15 witness: a process whose load_model has called download_model serves
\* with the weight file in place (fetched by it, by a process before it, or
\* there from the start).
C15_Witness ==
    /\ svc = "route"
    /\ lifespanOn
    /\ phase = "serving"
    /\ weights = "complete"
    /\ clap_model = "Model"


\* The raw path a WAV path was derived from (wav_path = temp_path + ".wav").
RawOf(wp) == SubSeq(wp, 1, Len(wp) - 1)

\* C16: in route.py, from the successful export on (inference about to be
\* called or running), the request's raw upload file is gone, only the WAV
\* file is left of its scratch files, and temp_path is None.
C16_RawDeletedBeforeInference ==
    \A r \in Requests :
        (svc = "route" /\ pc[r] \in {"generate", "inferring"}) =>
            /\ RawOf(wav_path[r]) \notin files
            /\ OwnedFiles(r) = {wav_path[r]}
            /\ temp_path[r] = NoPath

\* C16 witness: inference is running for a route.py request.
C16_Witness ==
    \E r \in Requests :
        /\ svc = "route"
        /\ pc[r] = "inferring"
        /\ inferCalls[r] = 1
        /\ wav_path[r] \in files


\* C17: a route.py caption request never makes more os.unlink calls than it
\* created scratch files, and once it has completed, on any exit path, it has
\* made exactly as many as it created and none of its files is left: each
\* file was deleted once and only once.
C17_CleanupExactlyOnce ==
    \A r \in Requests :
        (svc = "route" /\ IsCaption(r)) =>
            /\ unlinkCalls[r] <= creates[r]
            /\ Done(r) =>
                  /\ unlinkCalls[r] = creates[r]
                  /\ OwnedFiles(r) = {}

\* C17 witness: a route.py request whose export failed after writing part of
\* the WAV file has completed; it created two files and deleted two.
C17_Witness ==
    \E r \in Requests :
        /\ svc = "route"
        /\ Done(r)
        /\ outcome[r] = "export_error"
        /\ creates[r] = 2
        /\ unlinkCalls[r] = 2


\* The scratch paths a request holds in its locals.
ScratchPaths(r) == {temp_path[r], wav_path[r]} \ {NoPath}

\* C18: after every step no two requests hold the same scratch path, raw or
\* WAV; a file that stays on disk keeps its writer (nobody overwrites it);
\* and a file that disappears is removed by the step of the request that
\* wrote it.
C18_ScratchPathsDisjoint ==
    [][ /\ \A a, b \in Requests :
              a # b => ScratchPaths(a)' \cap ScratchPaths(b)' = {}
        /\ \A p \in files \cap files' : owner'[p] = owner[p]
        /\ \A p \in files \ files' : pc'[owner[p]] # pc[owner[p]] ]_vars

\* C18 witness: two main.py requests are in flight at once, each with its own
\* scratch file on disk.
C18_Witness ==
    \E a, b \in Requests :
        /\ a # b
        /\ pc[a] = "reading"
        /\ pc[b] \in {"reading", "generate", "inferring"}
        /\ temp_path[a] \in files
        /\ temp_path[b] \in files
        /\ temp_path[a] # temp_path[b]


\* C19: a held model is given up only by the shutdown code of the lifespan,
\* and a process stopped through the lifespan holds none; a model that was
\* deleted is neither deleted again nor brought back; a model is constructed
\* only by load_model at startup with none held; and load_model entered with
\* a model held deletes it before it constructs another.
C19_ReleasedOnce ==
    [][ /\ (clap_model = "Model" /\ clap_model' # "Model") =>
              (clap_model' = "Unbound" /\ phase = "serving" /\ phase' = "stopped")
        /\ (phase' = "stopped" /\ lifespanOn) => clap_model' # "Model"
        /\ clap_model = "Unbound" => clap_model' = "Unbound"
        /\ (clap_model' = "Model" /\ clap_model # "Model") =>
              (clap_model = "None" /\ phase = "startup")
        /\ \A net \in {"ok", "http_error", "write_error"}, cons \in {"ok", "raise"} :
              LoadModel("Model", weights, net, cons).released ]_vars

\* C19 witness: a process that loaded the model and served requests has shut
\* down and deleted it.
C19_Witness ==
    /\ phase = "stopped"
    /\ lifespanOn
    /\ clap_model = "Unbound"
    /\ \E r \in Requests : Done(r)


\* C20: route.py never leaves a partial weight file at the model path, so a
\* load attempt never finds one there.
C20_NoPartialWeightFile ==
    svc = "route" => weights # "partial"


\* The scratch path a request hands to the model: wav_path in route.py,
\* temp_path in main.py.
ModelInput(r) == IF svc = "route" THEN wav_path[r] ELSE temp_path[r]

\* C21: whenever the decoder is about to be invoked (route.py), its input file
\* exists and was written by this request; from the moment generate_caption
\* is about to be called until it has returned, the file passed to it exists
\* and was written by this request.
C21_InputsExist ==
    \A r \in Requests :
        /\ (svc = "route" /\ pc[r] = "decode") =>
              (temp_path[r] \in files /\ owner[temp_path[r]] = r)
        /\ pc[r] \in {"generate", "inferring"} =>
              (ModelInput(r) \in files /\ owner[ModelInput(r)] = r)

\* C21 witness: generate_caption is running on a request's scratch file after
\* another request has already deleted its own.
C21_Witness ==
    \E a, b \in Requests :
        /\ a # b
        /\ pc[a] = "inferring"
        /\ ModelInput(a) \in files
        /\ Done(b)
        /\ unlinkCalls[b] >= 1

====
